---- MODULE Spec2Model ----
(***************************************************************************)
(* Model of src/app.py (Word Table Splitter).                              *)
(*                                                                         *)
(* extract_tables_from_docx builds, for every top-level table of a parsed  *)
(* document, a new document from the default template and copies the      *)
(* table into it by hand: cell by cell, paragraph by paragraph, run by     *)
(* run, and then appends the children of the source tcPr / tblPr elements  *)
(* to the new elements.  main drives it over a batch of uploaded files.    *)
(*                                                                         *)
(* The document tree is modelled at the level the code touches it: body    *)
(* blocks, tables, rows, tc elements with their tcPr children, paragraphs  *)
(* with style, text and non-run content.  The python-docx calls the code   *)
(* makes are modelled by what they do on that tree (python-docx 1.1        *)
(* semantics: _Row.cells walks the tc elements of its own row, Table.cell  *)
(* indexes the flat cell list of the table, lxml append moves a node).     *)
(***************************************************************************)
EXTENDS Integers, Sequences, FiniteSets, TLC

\* Bounds of the input documents: the grid cells (rows times grid columns) of
\* a table, and the top-level tables of a document.
MaxCells == 6
MaxTables == 2

\* Bound of the driver loop: the files of one upload.
MaxFiles == 3

----------------------------------------------------------------------------
\* Generic helpers.

RECURSIVE Repeat(_, _)
Repeat(x, n) == IF n <= 0 THEN <<>> ELSE <<x>> \o Repeat(x, n - 1)

RECURSIVE SumTo(_, _)
\* Sum of f[1..n].
SumTo(f, n) == IF n = 0 THEN 0 ELSE f[n] + SumTo(f, n - 1)

RECURSIVE Flatten(_)
Flatten(ss) == IF ss = <<>> THEN <<>> ELSE Head(ss) \o Flatten(Tail(ss))

----------------------------------------------------------------------------
\* XML property containers (tcPr, tblPr): an ordered list of child elements.
\* A child is [tag, val, n]; val carries a string value, n a numeric one.

Child(tag, val, n) == [tag |-> tag, val |-> val, n |-> n]

HasChild(pr, tag) == \E k \in DOMAIN pr : pr[k].tag = tag

\* The first child with the tag, as python-docx's ZeroOrOne accessors find it.
FirstChild(pr, tag) ==
    pr[CHOOSE k \in DOMAIN pr :
          /\ pr[k].tag = tag
          /\ \A m \in 1..(k - 1) : pr[m].tag # tag]

\* CT_Tc.grid_span: the gridSpan value, 1 when there is none.
GridSpan(tc) == IF HasChild(tc.tcPr, "gridSpan") THEN FirstChild(tc.tcPr, "gridSpan").n ELSE 1

\* CT_Tc.vMerge: "restart", "continue" or "none" when there is no vMerge child.
VMerge(tc) == IF HasChild(tc.tcPr, "vMerge") THEN FirstChild(tc.tcPr, "vMerge").val ELSE "none"

\* Table.style reads tblPr/tblStyle; "none" when absent.
TblStyleVal(tbl) == IF HasChild(tbl.tblPr, "tblStyle") THEN FirstChild(tbl.tblPr, "tblStyle").val ELSE "none"

----------------------------------------------------------------------------
\* Styles.  The default template defines these ids; an uploaded document may
\* define more.

TemplateStyles == {"Normal", "TableNormal", "TableGrid"}

CustomStyles == {"CustomTable", "CustomPara"}

\* styles.default(type) of an uploaded document.
DefaultStyle(type) == IF type = "table" THEN "TableNormal" ELSE "Normal"

\* part.get_style(style_id, type): the style with that id, the default style
\* of the type when the id is absent or undefined.  A style object is
\* modelled by its id.
GetStyle(styles, style_id, type) ==
    IF style_id \in styles THEN style_id ELSE DefaultStyle(type)

\* part.get_style_id(style, type) of the NEW document for a style object of
\* the SOURCE document: the object is never the new document's default style
\* object, so its id is written as is, defined there or not.
GetStyleId(style) == style

----------------------------------------------------------------------------
\* Input documents: what Document(uploaded_file) yields for a well-formed
\* upload.  A table layout is a list of rows, each a list of tc elements with
\* a grid span and a vertical-merge mark; every row covers all grid columns,
\* and a "continue" tc lies exactly below a tc of the same width.

RECURSIVE Comp(_)
\* The ways to cut n grid columns into consecutive cells.
Comp(n) ==
    IF n = 0 THEN {<<>>}
    ELSE UNION {{<<s>> \o rest : rest \in Comp(n - s)} : s \in 1..n}

SpanOffset(row, j) == SumTo([m \in DOMAIN row |-> row[m].span], j - 1)

Aligned(prev, lay) ==
    {j \in DOMAIN lay :
        \E m \in DOMAIN prev :
            /\ SpanOffset(prev, m) = SumTo(lay, j - 1)
            /\ prev[m].span = lay[j]}

NextRows(prev, cols) ==
    UNION {{[j \in DOMAIN lay |-> [span |-> lay[j], cont |-> j \in S]] :
                S \in SUBSET Aligned(prev, lay)} : lay \in Comp(cols)}

RECURSIVE Layouts(_, _)
Layouts(rows, cols) ==
    IF rows = 1
    THEN {<<[j \in DOMAIN lay |-> [span |-> lay[j], cont |-> FALSE]]>> : lay \in Comp(cols)}
    ELSE UNION {{Append(sh, row) : row \in NextRows(sh[rows - 1], cols)} :
                    sh \in Layouts(rows - 1, cols)}

AllLayouts ==
    UNION {Layouts(rc[1], rc[2]) :
              rc \in {x \in (1..MaxCells) \X (1..MaxCells) : x[1] * x[2] <= MaxCells}}

LayoutCols(sh) == SumTo([m \in DOMAIN sh[1] |-> sh[1][m].span], Len(sh[1]))

\* The vMerge mark of tc j of row r: "continue" as laid out, "restart" when
\* the tc below it continues it.
LayoutVMerge(sh, r, j) ==
    IF sh[r][j].cont THEN "continue"
    ELSE IF /\ r < Len(sh)
            /\ \E m \in DOMAIN sh[r + 1] :
                  /\ sh[r + 1][m].cont
                  /\ SpanOffset(sh[r + 1], m) = SpanOffset(sh[r], j)
         THEN "restart"
         ELSE "none"

Flavours == {"plain", "styled", "rich"}

\* One paragraph of a cell: its pStyle ("none" when absent), the text of its
\* runs, and what it holds besides plain runs.
Para(style, text, extras) == [style |-> style, text |-> text, extras |-> extras]

\* tc j of row r of table t.  In a "rich" document the first cell of every
\* table also holds an image, a hyperlink, a numbered paragraph, a nested
\* table and a content control; in a "styled" one the paragraphs use a style
\* the document defines itself.
SourceTc(sh, t, r, j, fl) ==
    LET first == r = 1 /\ j = 1 IN
    [tcPr  |-> <<Child("tcW", "dxa", 0)>>
               \o (IF sh[r][j].span > 1 THEN <<Child("gridSpan", "", sh[r][j].span)>> ELSE <<>>)
               \o (IF LayoutVMerge(sh, r, j) # "none"
                   THEN <<Child("vMerge", LayoutVMerge(sh, r, j), 0)>> ELSE <<>>)
               \o (IF fl = "rich" THEN <<Child("shd", "clear", 0)>> ELSE <<>>),
     paras |-> <<Para(IF fl = "styled" THEN "CustomPara" ELSE "none",
                      <<t, r, j>>,
                      IF fl = "rich" /\ first THEN {"image", "hyperlink", "numPr"} ELSE {})>>,
     other |-> IF fl = "rich" /\ first THEN <<"tbl", "sdt">> ELSE <<>>]

Block(kind, origin, tblPr, cols, rows) ==
    [kind |-> kind, origin |-> origin, tblPr |-> tblPr, cols |-> cols, rows |-> rows]

SourceTable(sh, t, fl) ==
    Block("tbl", "source",
          <<Child("tblStyle", IF fl = "styled" THEN "CustomTable" ELSE "TableGrid", 0),
            Child("tblW", "auto", 0)>>,
          LayoutCols(sh),
          [r \in DOMAIN sh |-> [j \in DOMAIN sh[r] |-> SourceTc(sh, t, r, j, fl)]])

SourcePara == Block("p", "source", <<>>, 0, <<>>)

\* A document with k top-level tables of layout sh.  Unless "plain", a
\* paragraph precedes every table and one ends the body.
SourceDoc(k, sh, fl) ==
    [body   |-> Flatten([t \in 1..k |->
                    (IF fl = "plain" THEN <<>> ELSE <<SourcePara>>) \o <<SourceTable(sh, t, fl)>>])
                \o (IF fl = "plain" THEN <<>> ELSE <<SourcePara>>),
     styles |-> TemplateStyles \cup (IF fl = "styled" THEN CustomStyles ELSE {}),
     rels   |-> IF fl = "rich" THEN {"rIdImage", "rIdLink"} ELSE {},
     nums   |-> IF fl = "rich" THEN {"num1"} ELSE {}]

Docs ==
    {SourceDoc(0, <<>>, fl) : fl \in Flavours}
    \cup {SourceDoc(k, sh, fl) : k \in 1..MaxTables, sh \in AllLayouts, fl \in Flavours}

----------------------------------------------------------------------------
\* The python-docx calls of extract_tables_from_docx, on the modelled tree.
\* Rows, columns and tables are numbered from 1 here; the code's row_idx and
\* col_idx are these minus one.

RECURSIVE TablesFrom(_, _)
TablesFrom(body, p) ==
    IF p > Len(body) THEN <<>>
    ELSE (IF body[p].kind = "tbl" THEN <<p>> ELSE <<>>) \o TablesFrom(body, p + 1)

\* doc.tables: the body's direct tbl children in document order, as body
\* positions.  A table inside a cell is no child of the body.
TopLevelTables(body) == TablesFrom(body, 1)

\* Document(): the default template; its body holds a section mark only.
NewDocument ==
    [body   |-> <<Block("sectPr", "template", <<>>, 0, <<>>)>>,
     styles |-> TemplateStyles,
     rels   |-> {},
     nums   |-> {}]

\* A cell as add_table creates it: a width and one empty paragraph.
NewTc == [tcPr  |-> <<Child("tcW", "dxa", 0)>>,
          paras |-> <<Para("none", <<>>, {})>>,
          other |-> <<>>]

\* new_doc.add_table(rows, cols): a uniform rows x cols table, inserted
\* after the body's content and before its closing section mark.
AddTable(nd, rows, cols) ==
    LET tbl == Block("tbl", "new",
                     <<Child("tblW", "auto", 0), Child("tblLook", "04A0", 0)>>,
                     cols,
                     [r \in 1..rows |-> [j \in 1..cols |-> NewTc]])
        n   == Len(nd.body)
    IN [nd EXCEPT !.body =
          IF n > 0 /\ nd.body[n].kind = "sectPr"
          THEN SubSeq(nd.body, 1, n - 1) \o <<tbl>> \o <<nd.body[n]>>
          ELSE Append(nd.body, tbl)]

\* new_table: the table add_table returned, the last tbl child of the new
\* body, as a body position.
NewTablePos(nd) == LET ts == TopLevelTables(nd.body) IN ts[Len(ts)]

\* new_table.style = table.style, done only when table.style is truthy: the
\* style object is looked up in the source and its id written to the new
\* tblPr.
SetTableStyle(nt, styles, tbl) ==
    LET style == GetStyle(styles, TblStyleVal(tbl), "table")
        NotStyle(c) == c.tag # "tblStyle"
    IN [nt EXCEPT !.tblPr = <<Child("tblStyle", GetStyleId(style), 0)>>
                            \o SelectSeq(nt.tblPr, NotStyle)]

\* CT_Tc.grid_offset: the grid column a tc starts at.
GridOffset(row, j) == SumTo([m \in DOMAIN row |-> GridSpan(row[m])], j - 1)

\* CT_Row.tc_at_grid_offset: the tc starting exactly at the offset, 0 when
\* there is none (the library raises ValueError).
TcAtGridOffset(row, off) ==
    IF \E j \in DOMAIN row : GridOffset(row, j) = off
    THEN CHOOSE j \in DOMAIN row : GridOffset(row, j) = off
    ELSE 0

RECURSIVE IterTcCells(_, _, _)
\* The cells one tc contributes to row.cells: itself once per grid column it
\* spans, or, for a "continue" tc, whatever the tc above it contributes.
\* [ok |-> FALSE] stands for the ValueError of a missing tc above.
IterTcCells(tbl, r, j) ==
    LET tc == tbl.rows[r][j] IN
    IF VMerge(tc) = "continue"
    THEN IF r = 1 THEN [ok |-> FALSE, cells |-> <<>>]
         ELSE LET above == TcAtGridOffset(tbl.rows[r - 1], GridOffset(tbl.rows[r], j)) IN
              IF above = 0 THEN [ok |-> FALSE, cells |-> <<>>]
              ELSE IterTcCells(tbl, r - 1, above)
    ELSE [ok |-> TRUE, cells |-> Repeat(<<r, j>>, GridSpan(tc))]

\* row.cells, evaluated when the inner loop over a row starts: the tuple of
\* cells (as <<row, tc>> positions of the source table), read from the table
\* as it is at that moment.
RowCells(tbl, r) ==
    LET parts == [j \in DOMAIN tbl.rows[r] |-> IterTcCells(tbl, r, j)] IN
    [ok    |-> \A j \in DOMAIN parts : parts[j].ok,
     cells |-> Flatten([j \in DOMAIN parts |-> parts[j].cells])]

RECURSIVE FlatCells(_, _, _, _, _)
\* Table._cells: one entry per grid column of every tc, tc by tc in document
\* order; a "continue" tc repeats the entry one row of entries back.
FlatCells(nt, r, j, left, acc) ==
    IF r > Len(nt.rows) THEN acc
    ELSE IF j > Len(nt.rows[r]) THEN FlatCells(nt, r + 1, 1, 0, acc)
    ELSE IF left = 0 THEN FlatCells(nt, r, j, GridSpan(nt.rows[r][j]), acc)
    ELSE LET tc == nt.rows[r][j]
             entry == IF VMerge(tc) = "continue" /\ Len(acc) >= nt.cols
                      THEN acc[Len(acc) - nt.cols + 1]
                      ELSE <<r, j>>
         IN IF left = 1
            THEN FlatCells(nt, r, j + 1, 0, Append(acc, entry))
            ELSE FlatCells(nt, r, j, left - 1, Append(acc, entry))

\* new_table.cell(row_idx, col_idx): entry col_idx + row_idx * column_count of
\* the flat cell list.
TableCell(nt, row, col) == FlatCells(nt, 1, 1, 0, <<>>)[col + (row - 1) * nt.cols]

\* The paragraph loop of one cell: a new paragraph per paragraph that is a
\* direct child of the cell, with its style and the text of its runs.
CopyParagraphs(styles, cell) ==
    [p \in DOMAIN cell.paras |->
        Para(GetStyleId(GetStyle(styles, cell.paras[p].style, "paragraph")),
             cell.paras[p].text,
             {})]

\* The children of the source tcPr that the loop of lines 71-72 appends to
\* the new tcPr.  Appending an element that has a parent takes it out of that
\* parent, and the loop reaches every child.
MovedTcPr(cell) == cell.tcPr

\* What is left in the source tcPr afterwards.
LeftTcPr(cell) == <<>>

\* One pass of the body of the column loop on table p of document st.doc:
\* the target cell is cleared except for its tcPr, receives the copied
\* paragraphs, and the children of the source tcPr are appended to its tcPr.
\* st = [doc, nt]: the parsed source document and the new table.
CopyCell(st, p, pos, row, col) ==
    LET cell == st.doc.body[p].rows[pos[1]][pos[2]]
        np   == TableCell(st.nt, row, col)
        old  == st.nt.rows[np[1]][np[2]]
    IN [doc |-> [st.doc EXCEPT !.body[p].rows[pos[1]][pos[2]].tcPr = LeftTcPr(cell)],
        nt  |-> [st.nt EXCEPT !.rows[np[1]][np[2]] =
                    [tcPr  |-> old.tcPr \o MovedTcPr(cell),
                     paras |-> CopyParagraphs(st.doc.styles, cell),
                     other |-> <<>>]]]

RECURSIVE CopyCells(_, _, _, _, _)
\* The column loop over the cells tuple of one row, from column col on.
CopyCells(st, p, cells, row, col) ==
    IF col > Len(cells) THEN st
    ELSE CopyCells(CopyCell(st, p, cells[col], row, col), p, cells, row, col + 1)

\* Variant of MovedTblPr: the table-level properties are always read from the
\* document's first table (doc.tables[0]) instead of the table of this pass.
MovedTblPrOfFirstTable(d, p) == d.body[TopLevelTables(d.body)[1]].tblPr

\* The tblPr whose children the table-level copy appends to the new tblPr.
MovedTblPr(d, p) == d.body[p].tblPr

LeftTblPr(tbl) == <<>>

\* Table-level formatting: the new tblPr is cleared and the children of the
\* source tblPr are appended to it, which takes them out of the source.
CopyTblPr(st, p) ==
    [doc |-> [st.doc EXCEPT !.body[p].tblPr = LeftTblPr(st.doc.body[p])],
     nt  |-> [st.nt EXCEPT !.tblPr = MovedTblPr(st.doc, p)]]

\* Variant of StartTable: the new document starts as a copy of the uploaded
\* one (Document(uploaded_file)) instead of the empty template.
StartTableInClone(d, p) ==
    LET tbl == d.body[p]
        nd  == AddTable([NewDocument EXCEPT !.body = d.body \o @, !.styles = d.styles],
                        Len(tbl.rows), tbl.cols)
    IN [nd EXCEPT !.body[NewTablePos(nd)] =
           SetTableStyle(nd.body[NewTablePos(nd)], d.styles, tbl)]

\* Lines 23-30: the new document with its empty table, styled after the
\* source table.
StartTable(d, p) ==
    LET tbl == d.body[p]
        nd  == AddTable(NewDocument, Len(tbl.rows), tbl.cols)
    IN [nd EXCEPT !.body[NewTablePos(nd)] =
           SetTableStyle(nd.body[NewTablePos(nd)], d.styles, tbl)]

\* f'table_{i}.docx'
TableName(i) == [stem |-> "table_", index |-> i, ext |-> ".docx"]

\* new_doc.save(...) and the entry appended to extracted_docs.
Entry(i, nd) == [name |-> TableName(i), content |-> nd]

NoTablesMessage == "No tables found in the document."

----------------------------------------------------------------------------
\* extract_tables_from_docx as a function of a freshly parsed document, used
\* where a whole call is one step (the driver loop) and as the reference for
\* what a table yields when extracted on its own.

RECURSIVE ExtractRows(_, _, _)
\* The row loop from row r on.  ok is FALSE when row.cells raised.
ExtractRows(st, p, r) ==
    IF r > Len(st.doc.body[p].rows) THEN [ok |-> TRUE, st |-> st]
    ELSE LET rc == RowCells(st.doc.body[p], r) IN
         IF ~rc.ok THEN [ok |-> FALSE, st |-> st]
         ELSE ExtractRows(CopyCells(st, p, rc.cells, r, 1), p, r + 1)

\* One pass of the table loop on the table at body position p of d.
ExtractTable(d, p) ==
    LET nd   == StartTable(d, p)
        rows == ExtractRows([doc |-> d, nt |-> nd.body[NewTablePos(nd)]], p, 1)
        fin  == CopyTblPr(rows.st, p)
    IN IF ~rows.ok THEN [ok |-> FALSE, doc |-> rows.st.doc, out |-> nd]
       ELSE [ok |-> TRUE, doc |-> fin.doc,
             out |-> [nd EXCEPT !.body[NewTablePos(nd)] = fin.nt]]

RECURSIVE ExtractFrom(_, _, _, _)
ExtractFrom(d, tables, n, acc) ==
    IF n > Len(tables) THEN [raised |-> FALSE, docs |-> acc, error |-> "None"]
    ELSE LET one == ExtractTable(d, tables[n]) IN
         IF ~one.ok THEN [raised |-> TRUE, docs |-> <<>>, error |-> "None"]
         ELSE ExtractFrom(one.doc, tables, n + 1, Append(acc, Entry(n, one.out)))

\* The whole call on a parsed document: the returned pair, or raised.
Extract(d) ==
    IF TopLevelTables(d.body) = <<>>
    THEN [raised |-> FALSE, docs |-> <<>>, error |-> NoTablesMessage]
    ELSE ExtractFrom(d, TopLevelTables(d.body), 1, <<>>)

----------------------------------------------------------------------------
\* State.

VARIABLES
    src,             \* the uploaded document as parsed from its bytes
    doc,             \* doc of extract_tables_from_docx: the parsed tree the call works on
    pc,              \* position in extract_tables_from_docx
    i,               \* number of the table the loop of line 21 is at
    row_idx,         \* rows of the current table already copied
    new_doc,         \* new_doc of the current pass
    extracted_docs,  \* the entries appended so far
    result,          \* the returned pair
    uploaded_files,  \* main: the batch
    idx,             \* main: files the driver loop has gone through
    all_results,     \* main: all_results
    shown,           \* main: what st.error / st.success / st.warning / download buttons showed
    mpc              \* position in main

xvars == <<src, doc, pc, i, row_idx, new_doc, extracted_docs, result>>
mvars == <<uploaded_files, idx, all_results, shown, mpc>>
vars == <<src, doc, pc, i, row_idx, new_doc, extracted_docs, result,
          uploaded_files, idx, all_results, shown, mpc>>

NoResult == [docs |-> <<>>, error |-> "None"]

\* The body positions of the tables the loop of line 21 goes through.
Tables == TopLevelTables(doc.body)

\* body position of the table the loop is at
Cur == Tables[i]

----------------------------------------------------------------------------
\* extract_tables_from_docx, one call on one well-formed upload.

Init ==
    /\ src \in Docs
    /\ doc = src
    /\ pc = "start"
    /\ i = 0
    /\ row_idx = 0
    /\ new_doc = NewDocument
    /\ extracted_docs = <<>>
    /\ result = NoResult
    /\ uploaded_files = <<>>
    /\ idx = 0
    /\ all_results = <<>>
    /\ shown = <<>>
    /\ mpc = "idle"

\* Lines 16-17.
NoTables ==
    /\ pc = "start"
    /\ Tables = <<>>
    /\ result' = [docs |-> <<>>, error |-> NoTablesMessage]
    /\ pc' = "returned"
    /\ UNCHANGED <<src, doc, i, row_idx, new_doc, extracted_docs>>
    /\ UNCHANGED mvars

\* Lines 21-30: the next table, its new document and empty table.
BeginTable ==
    /\ pc \in {"start", "loop"}
    /\ i < Len(Tables)
    /\ i' = i + 1
    /\ new_doc' = StartTable(doc, Tables[i + 1])
    /\ row_idx' = 0
    /\ pc' = "rows"
    /\ UNCHANGED <<src, doc, extracted_docs, result>>
    /\ UNCHANGED mvars

\* Lines 33-72 for one row: row.cells, then the column loop.
CopyRow ==
    /\ pc = "rows"
    /\ row_idx < Len(doc.body[Cur].rows)
    /\ LET rc == RowCells(doc.body[Cur], row_idx + 1) IN
       /\ rc.ok
       /\ LET st == CopyCells([doc |-> doc, nt |-> new_doc.body[NewTablePos(new_doc)]],
                              Cur, rc.cells, row_idx + 1, 1) IN
          /\ doc' = st.doc
          /\ new_doc' = [new_doc EXCEPT !.body[NewTablePos(new_doc)] = st.nt]
    /\ row_idx' = row_idx + 1
    /\ UNCHANGED <<src, pc, i, extracted_docs, result>>
    /\ UNCHANGED mvars

\* Line 34 when row.cells raises: the exception leaves the function.
RowCellsRaises ==
    /\ pc = "rows"
    /\ row_idx < Len(doc.body[Cur].rows)
    /\ ~RowCells(doc.body[Cur], row_idx + 1).ok
    /\ pc' = "raised"
    /\ UNCHANGED <<src, doc, i, row_idx, new_doc, extracted_docs, result>>
    /\ UNCHANGED mvars

\* Lines 75-88: table-level formatting, save, append the entry.
FinishTable ==
    /\ pc = "rows"
    /\ row_idx = Len(doc.body[Cur].rows)
    /\ LET st == CopyTblPr([doc |-> doc, nt |-> new_doc.body[NewTablePos(new_doc)]], Cur) IN
       /\ doc' = st.doc
       /\ new_doc' = [new_doc EXCEPT !.body[NewTablePos(new_doc)] = st.nt]
       /\ extracted_docs' = Append(extracted_docs,
              Entry(i, [new_doc EXCEPT !.body[NewTablePos(new_doc)] = st.nt]))
    /\ pc' = "loop"
    /\ UNCHANGED <<src, i, row_idx, result>>
    /\ UNCHANGED mvars

\* Line 90.
Return ==
    /\ pc = "loop"
    /\ i = Len(Tables)
    /\ result' = [docs |-> extracted_docs, error |-> "None"]
    /\ pc' = "returned"
    /\ UNCHANGED <<src, doc, i, row_idx, new_doc, extracted_docs>>
    /\ UNCHANGED mvars

Next ==
    \/ NoTables
    \/ BeginTable
    \/ CopyRow
    \/ RowCellsRaises
    \/ FinishTable
    \/ Return

Spec == Init /\ [][Next]_vars

----------------------------------------------------------------------------
\* main: the driver loop over a batch, after "Split Tables" was pressed.
\* An upload either parses to a document or is no package at all; in the
\* first case Document(uploaded_file) yields doc, in the second it raises.

Upload(parses, d) == [parses |-> parses, doc |-> d]

SingleCell == <<<<[span |-> 1, cont |-> FALSE]>>>>

\* A table whose second row continues a cell that lies right of a horizontal
\* span: a well-formed table as Word writes it.
MergedLayout ==
    << <<[span |-> 2, cont |-> FALSE], [span |-> 1, cont |-> FALSE]>>,
       <<[span |-> 2, cont |-> FALSE], [span |-> 1, cont |-> TRUE]>> >>

Uploads ==
    {Upload(FALSE, SourceDoc(0, <<>>, "plain"))}
    \cup {Upload(TRUE, SourceDoc(k, SingleCell, "plain")) : k \in 0..MaxTables}
    \cup {Upload(TRUE, SourceDoc(1, MergedLayout, "plain"))}

Batches == UNION {[1..n -> Uploads] : n \in 1..MaxFiles}

Message(kind, file, count) == [kind |-> kind, file |-> file, count |-> count]

\* The call of line 141 on upload f raises: Document() on bytes that are no
\* package, or an exception inside the table loop.
CallRaises(f) == ~f.parses \/ Extract(f.doc).raised

MainInit ==
    /\ uploaded_files \in Batches
    /\ idx = 0
    /\ all_results = <<>>
    /\ shown = <<>>
    /\ mpc = "loop"
    /\ src = SourceDoc(0, <<>>, "plain")
    /\ doc = src
    /\ pc = "idle"
    /\ i = 0
    /\ row_idx = 0
    /\ new_doc = NewDocument
    /\ extracted_docs = <<>>
    /\ result = NoResult

\* Lines 143-145: the returned error is truthy.
ReportError ==
    /\ mpc = "loop"
    /\ idx < Len(uploaded_files)
    /\ ~CallRaises(uploaded_files[idx + 1])
    /\ Extract(uploaded_files[idx + 1].doc).error # "None"
    /\ shown' = Append(shown, Message("error", idx + 1, 0))
    /\ idx' = idx + 1
    /\ UNCHANGED <<uploaded_files, all_results, mpc>>
    /\ UNCHANGED xvars

\* Lines 147-154: the result is recorded and announced.
RecordResult ==
    /\ mpc = "loop"
    /\ idx < Len(uploaded_files)
    /\ ~CallRaises(uploaded_files[idx + 1])
    /\ LET r == Extract(uploaded_files[idx + 1].doc) IN
       /\ r.error = "None"
       /\ r.docs # <<>>
       /\ all_results' = Append(all_results,
              [filename |-> idx + 1, docs |-> r.docs, count |-> Len(r.docs)])
       /\ shown' = Append(shown, Message("success", idx + 1, Len(r.docs)))
    /\ idx' = idx + 1
    /\ UNCHANGED <<uploaded_files, mpc>>
    /\ UNCHANGED xvars

\* Line 141 raises: nothing in main catches it, the run of the script ends
\* there and the framework shows the exception.
CallFails ==
    /\ mpc = "loop"
    /\ idx < Len(uploaded_files)
    /\ CallRaises(uploaded_files[idx + 1])
    /\ shown' = Append(shown, Message("exception", idx + 1, 0))
    /\ mpc' = "crashed"
    /\ UNCHANGED <<uploaded_files, idx, all_results>>
    /\ UNCHANGED xvars

\* Lines 160-208: one download per recorded result, and one for everything
\* when there are several.
OfferDownloads ==
    /\ mpc = "loop"
    /\ idx = Len(uploaded_files)
    /\ all_results # <<>>
    /\ shown' = shown
                \o [n \in DOMAIN all_results |->
                       Message("download", all_results[n].filename, all_results[n].count)]
                \o (IF Len(all_results) > 1
                    THEN <<Message("download_all", 0, Len(all_results))>> ELSE <<>>)
    /\ mpc' = "done"
    /\ UNCHANGED <<uploaded_files, idx, all_results>>
    /\ UNCHANGED xvars

\* Lines 210-211.
WarnNoTables ==
    /\ mpc = "loop"
    /\ idx = Len(uploaded_files)
    /\ all_results = <<>>
    /\ shown' = Append(shown, Message("warning", 0, 0))
    /\ mpc' = "done"
    /\ UNCHANGED <<uploaded_files, idx, all_results>>
    /\ UNCHANGED xvars

MainNext ==
    \/ ReportError
    \/ RecordResult
    \/ CallFails
    \/ OfferDownloads
    \/ WarnNoTables

MainSpec == MainInit /\ [][MainNext]_vars

----------------------------------------------------------------------------
\* Properties of extract_tables_from_docx (checked under Spec).

Finished == pc \in {"returned", "raised"}

\* The n-th top-level table of the upload as it was parsed.
OrigTable(n) == src.body[TopLevelTables(src.body)[n]]

\* The table an output document shows: the first table of its body.
OutTable(out) == out.body[TopLevelTables(out.body)[1]]

CellsOf(tbl) == UNION {{tbl.rows[r][j] : j \in DOMAIN tbl.rows[r]} : r \in DOMAIN tbl.rows}

ParasOf(tbl) == UNION {{tc.paras[q] : q \in DOMAIN tc.paras} : tc \in CellsOf(tbl)}

CellText(tc) == [q \in DOMAIN tc.paras |-> tc.paras[q].text]

CellExtras(tc) == [q \in DOMAIN tc.paras |-> tc.paras[q].extras]

\* Every text of the output table comes from table n of the upload, and its
\* first cell shows that table's first cell.
BuiltFrom(out, n) ==
    /\ TopLevelTables(out.body) # <<>>
    /\ \A para \in ParasOf(OutTable(out)) : para.text # <<>> => para.text[1] = n
    /\ CellText(OutTable(out).rows[1][1]) = CellText(OrigTable(n).rows[1][1])

\* C1: a call on a document with k >= 1 top-level tables (nested tables or
\* not) returns exactly k entries, the n-th named table_<n>.docx and built
\* from the n-th top-level table.
C1_OneEntryPerTopLevelTable ==
    (Finished /\ Len(TopLevelTables(src.body)) >= 1) =>
        /\ pc = "returned"
        /\ Len(result.docs) = Len(TopLevelTables(src.body))
        /\ \A n \in DOMAIN result.docs :
              /\ result.docs[n].name = TableName(n)
              /\ BuiltFrom(result.docs[n].content, n)

\* C2: every call on a well-formed upload returns a pair with exactly one
\* side populated, (entries, None) or ([], message), the second exactly when
\* the document has no top-level table; it never ends by raising.
C2_ExactlyOneSidePopulated ==
    Finished =>
        /\ pc = "returned"
        /\ \/ result.docs # <<>> /\ result.error = "None"
           \/ result.docs = <<>> /\ result.error \notin {"None", ""}
        /\ (result.docs = <<>>) <=> (TopLevelTables(src.body) = <<>>)

SameTable(o, t) ==
    /\ Len(o.rows) = Len(t.rows)
    /\ o.cols = t.cols
    /\ \A r \in DOMAIN t.rows :
          /\ Len(o.rows[r]) = Len(t.rows[r])
          /\ \A j \in DOMAIN t.rows[r] :
                /\ GridSpan(o.rows[r][j]) = GridSpan(t.rows[r][j])
                /\ VMerge(o.rows[r][j]) = VMerge(t.rows[r][j])
                /\ CellText(o.rows[r][j]) = CellText(t.rows[r][j])

\* C3: the table of every output has the rows, the grid columns, the cells
\* with their text and the merge pattern (spans and vertical merges) of the
\* table of the upload it was made from.
C3_SameContentAndMerges ==
    \A n \in DOMAIN extracted_docs :
        SameTable(OutTable(extracted_docs[n].content), OrigTable(n))

\* C4: the body of every output holds exactly one top-level table, as its
\* first block, and no paragraph, section mark or table of the upload.
C4_OneTableOnly ==
    \A n \in DOMAIN extracted_docs :
        LET b == extracted_docs[n].content.body IN
        /\ TopLevelTables(b) = <<1>>
        /\ \A q \in DOMAIN b : b[q].origin # "source" /\ b[q].kind # "p"

\* C4 witness: a document with paragraphs around two tables was extracted.
C4_Witness ==
    /\ pc = "returned"
    /\ Len(result.docs) = 2
    /\ \E q \in DOMAIN src.body : src.body[q].kind = "p"

StyleRefs(out) ==
    ({TblStyleVal(out.body[q]) : q \in {x \in DOMAIN out.body : out.body[x].kind = "tbl"}}
     \cup UNION {{para.style : para \in ParasOf(out.body[q])} :
                    q \in {x \in DOMAIN out.body : out.body[x].kind = "tbl"}})
    \ {"none"}

ParaExtras(out) ==
    UNION {UNION {para.extras : para \in ParasOf(out.body[q])} :
              q \in {x \in DOMAIN out.body : out.body[x].kind = "tbl"}}

\* C5: every style id, numbering id and relationship id an output's table
\* refers to is defined inside that output.
C5_ReferenceClosure ==
    \A n \in DOMAIN extracted_docs :
        LET out == extracted_docs[n].content IN
        /\ StyleRefs(out) \subseteq out.styles
        /\ "numPr" \in ParaExtras(out) => "num1" \in out.nums
        /\ "image" \in ParaExtras(out) => "rIdImage" \in out.rels
        /\ "hyperlink" \in ParaExtras(out) => "rIdLink" \in out.rels

\* C6: whatever lies inside a cell of the extracted table (nested table,
\* image, hyperlink, content control) is in the same cell of the output.
C6_SubtreeIntact ==
    \A n \in DOMAIN extracted_docs :
        LET o == OutTable(extracted_docs[n].content)
            t == OrigTable(n)
        IN \A r \in DOMAIN t.rows : \A j \in DOMAIN t.rows[r] :
              /\ r <= Len(o.rows) /\ j <= Len(o.rows[r])
              /\ o.rows[r][j].other = t.rows[r][j].other
              /\ CellExtras(o.rows[r][j]) = CellExtras(t.rows[r][j])

\* C7: the parsed upload is never changed: every table keeps the children of
\* its tblPr and every cell the children of its tcPr.
C7_SourceUnchanged ==
    \A q \in DOMAIN src.body :
        /\ doc.body[q].tblPr = src.body[q].tblPr
        /\ \A r \in DOMAIN src.body[q].rows : \A j \in DOMAIN src.body[q].rows[r] :
              doc.body[q].rows[r][j].tcPr = src.body[q].rows[r][j].tcPr

\* C10: the output of table n in a pass over all tables is the output of
\* extracting table n alone from a fresh parse of the upload.
C10_NoCrossContamination ==
    \A n \in DOMAIN extracted_docs :
        LET alone == ExtractTable(src, TopLevelTables(src.body)[n]) IN
        /\ alone.ok
        /\ extracted_docs[n].content = alone.out

\* C10 witness: two tables were extracted in one pass, which changed the
\* parsed document on the way.
C10_Witness ==
    /\ pc = "returned"
    /\ Len(result.docs) >= 2
    /\ doc # src

----------------------------------------------------------------------------
\* Properties of the driver loop (checked under MainSpec).

HasTables(f) == f.parses /\ TopLevelTables(f.doc.body) # <<>>

\* C8: a document whose extraction fails is reported on its own and yields
\* no output, and every other document of the batch is still processed and
\* its results offered for download.
C8_FailureIsolated ==
    mpc \in {"done", "crashed"} =>
        \A f \in DOMAIN uploaded_files :
            /\ CallRaises(uploaded_files[f]) =>
                  /\ \E m \in DOMAIN shown :
                        shown[m].file = f /\ shown[m].kind \in {"error", "exception"}
                  /\ ~\E m \in DOMAIN shown : shown[m].file = f /\ shown[m].kind = "download"
            /\ (HasTables(uploaded_files[f]) /\ ~CallRaises(uploaded_files[f])) =>
                  \E m \in DOMAIN shown :
                        /\ shown[m].kind = "download"
                        /\ shown[m].file = f
                        /\ shown[m].count = Len(TopLevelTables(uploaded_files[f].doc.body))

\* C9: a document that parses and has no table is not reported through the
\* error path.
C9_NoTablesIsNotAnError ==
    \A f \in 1..idx :
        (uploaded_files[f].parses /\ TopLevelTables(uploaded_files[f].doc.body) = <<>>) =>
            ~\E m \in DOMAIN shown : shown[m].file = f /\ shown[m].kind = "error"

====
